---- MODULE Spec2Model ----
(***************************************************************************)
(* Model of the organisation-access data layer (src/lib/org.ts), of the    *)
(* organisation-access page, and of the floating help button: its          *)
(* viewer-role resolution hook and its help target resolution.             *)
(*                                                                         *)
(* JavaScript strings are TLA+ strings; Len, SubSeq and \o act on them     *)
(* character by character, as String.length, substring and + do.           *)
(***************************************************************************)
EXTENDS Integers, Sequences, FiniteSets, TLC

VARIABLES isMock, hasWindow, localStorage, call, hist, sites, writer,
          mounted, pathname, role, roleSource, appRole, lsRole, ssRole, attempts, last,
          effectsDue,
          helpIn, helpOut,
          activeClient, orgs, loading, errorText, reqs, shownFor, pageLast, loadDue,
          rendered

\* isMock is the mock/real flag of the data layer; hasWindow is what
\* typeof window !== 'undefined' gives where the data layer runs: TRUE in a
\* browser, FALSE where no window (and so no readable store) exists
storeVars == <<isMock, hasWindow, localStorage, call, hist, sites, writer>>
roleVars == <<mounted, pathname, role, roleSource, appRole, lsRole, ssRole, attempts, last,
             effectsDue>>
helpVars == <<helpIn, helpOut>>
pageVars == <<activeClient, orgs, loading, errorText, reqs, shownFor, pageLast, loadDue,
          rendered>>
vars == <<isMock, hasWindow, localStorage, call, hist, sites, writer,
          mounted, pathname, role, roleSource, appRole, lsRole, ssRole, attempts, last,
          effectsDue,
          helpIn, helpOut,
          activeClient, orgs, loading, errorText, reqs, shownFor, pageLast, loadDue,
          rendered>>

(***************************************************************************)
(* Bounds and input domains                                                *)
(***************************************************************************)
\* longest list a caller passes to setOrganisationsMockOnly
MaxLen == 1

ClientIds == {"", "c1"}
OrgIds == {"", "o1", "o2"}
Actions == {"approve", "reject", "revoke"}
UIStatuses == {"approved", "pending", "revoked"}

NameOf(id) == "Org " \o id

InputRecords == {[id |-> "o1", name |-> NameOf("o1"), status |-> "pending"]}

SeqsUpTo(S, n) == UNION {[1..k -> S] : k \in 0..n}

InputLists == SeqsUpTo(InputRecords, MaxLen)

(***************************************************************************)
(* mockApi seed (src/lib/mock/mockApi.ts is not part of the sources; the   *)
(* seed is a fixed reference list with backend statuses).                  *)
(***************************************************************************)
MOCK_ORGS ==
  << [id |-> "o1", name |-> "Org o1", status |-> "active"],
     [id |-> "o2", name |-> "Org o2", status |-> "pending"],
     [id |-> "o3", name |-> "Org o3", status |-> "revoked"] >>

(***************************************************************************)
(* Status mapping                                                          *)
(***************************************************************************)
\* variant: the backend status is passed through untranslated
toUIStatus_untranslated(status) == status

toUIStatus(status) == IF status = "active" THEN "approved" ELSE status

\* variant: revoke acts as a toggle on an already revoked record
applyActionToStatus_toggle(current, action) ==
  IF action = "approve" THEN "approved"
  ELSE IF action = "revoke" THEN (IF current = "revoked" THEN "approved" ELSE "revoked")
  ELSE IF action = "reject" THEN "revoked"
  ELSE current

applyActionToStatus(current, action) ==
  IF action = "approve" THEN "approved"
  ELSE IF action = "revoke" THEN "revoked"
  ELSE IF action = "reject" THEN "revoked"
  ELSE current

(***************************************************************************)
(* Local persistence.  A stored item is the text localStorage holds: no    *)
(* item (getItem gives null), the empty string, text that is not JSON,     *)
(* JSON that is not an array, or a JSON array of records.  The JSON text   *)
(* of a record is modelled as the triple of its field values.              *)
(***************************************************************************)
RawNull == [tag |-> "null", items |-> <<>>]
RawEmpty == [tag |-> "empty", items |-> <<>>]
RawMalformed == [tag |-> "malformed", items |-> <<>>]
RawObject == [tag |-> "object", items |-> <<>>]

JSONstringify(list) ==
  [tag |-> "array",
   items |-> [i \in 1..Len(list) |-> <<list[i].id, list[i].name, list[i].status>>]]

\* JSON.parse: ok = FALSE stands for the SyntaxError it throws
JSONparse(raw) ==
  IF raw.tag = "array"
    THEN [ok |-> TRUE, isArray |-> TRUE,
          value |-> [i \in 1..Len(raw.items) |->
                       [id |-> raw.items[i][1], name |-> raw.items[i][2],
                        status |-> raw.items[i][3]]]]
  ELSE IF raw.tag = "object"
    THEN [ok |-> TRUE, isArray |-> FALSE, value |-> <<>>]
  ELSE [ok |-> FALSE, isArray |-> FALSE, value |-> <<>>]

lsKey(clientId) == "mock_orgs_" \o clientId

StoreKeys == {lsKey(c) : c \in ClientIds}

\* raw is truthy: an item is present and is not the empty string
Truthy(raw) == raw.tag \notin {"null", "empty"}

seedList ==
  [i \in 1..Len(MOCK_ORGS) |->
     [id |-> MOCK_ORGS[i].id, name |-> MOCK_ORGS[i].name,
      status |-> toUIStatus(MOCK_ORGS[i].status)]]

\* variant: an empty persisted array is taken for "nothing persisted"
mockLoad_emptyIsAbsent(store, clientId) ==
  LET raw == store[lsKey(clientId)]
      parsed == JSONparse(raw)
  IN  IF hasWindow /\ Truthy(raw) /\ parsed.ok /\ parsed.isArray /\ Len(parsed.value) > 0
        THEN parsed.value
        ELSE seedList

mockLoad(store, clientId) ==
  LET raw == store[lsKey(clientId)]
      parsed == JSONparse(raw)
  IN  IF hasWindow /\ Truthy(raw) /\ parsed.ok /\ parsed.isArray
        THEN parsed.value
        ELSE seedList

\* variant: an item already persisted is not overwritten
mockSave_keepExisting(store, clientId, list) ==
  IF ~hasWindow THEN store
  ELSE IF store[lsKey(clientId)].tag = "array" THEN store
  ELSE [store EXCEPT ![lsKey(clientId)] = JSONstringify(list)]

mockSave(store, clientId, list) ==
  IF ~hasWindow THEN store
  ELSE [store EXCEPT ![lsKey(clientId)] = JSONstringify(list)]

(***************************************************************************)
(* Public API.  A call's outcome is a returned list, a thrown error, or    *)
(* nothing (a void promise).  resp is what the backend answers to a fetch. *)
(***************************************************************************)
RetList(list) == [tag |-> "list", value |-> list]
RetThrow == [tag |-> "throw", value |-> <<>>]
RetVoid == [tag |-> "void", value |-> <<>>]

BackendLists ==
  { <<>>,
    << [id |-> "o1", name |-> "Org o1", status |-> "pending"],
       [id |-> "o2", name |-> "Org o2", status |-> "approved"] >> }

FetchResponses ==
  {[kind |-> "ok", isArray |-> TRUE, data |-> l] : l \in BackendLists}
    \cup {[kind |-> "ok", isArray |-> FALSE, data |-> <<>>],
          [kind |-> "http_error", isArray |-> FALSE, data |-> <<>>],
          [kind |-> "network_error", isArray |-> FALSE, data |-> <<>>]}

getOrganisations(mock, store, clientId, resp) ==
  IF clientId = "" THEN RetList(<<>>)
  ELSE IF mock THEN RetList(mockLoad(store, clientId))
  ELSE IF resp.kind # "ok" THEN RetThrow
  ELSE RetList(IF resp.isArray THEN resp.data ELSE <<>>)

\* the updated list of the mock branch: list.map(...)
mapAction(list, orgId, action) ==
  [i \in 1..Len(list) |->
     IF list[i].id = orgId
       THEN [list[i] EXCEPT !.status = applyActionToStatus(list[i].status, action)]
       ELSE list[i]]

\* variant: the "reject removes the entry" filter is enabled
updateOrganisation_rejectRemoves(mock, store, clientId, orgId, action) ==
  IF clientId = "" \/ orgId = ""
    THEN [store |-> store, next |-> <<>>, pc |-> "get"]
  ELSE IF mock
    THEN LET list == mockLoad(store, clientId)
             mapped == mapAction(list, orgId, action)
             next == IF action = "reject"
                       THEN SelectSeq(mapped, LAMBDA r : r.id # orgId)
                       ELSE mapped
         IN  [store |-> mockSave(store, clientId, next), next |-> next,
              pc |-> "upd_sleep"]
  ELSE [store |-> store, next |-> <<>>, pc |-> "post"]

\* updateOrganisation up to its first await: the store it leaves, the list
\* it will return (mock branch), and what it then waits for: "get" is the
\* call of getOrganisations, "upd_sleep" is sleep(80), "post" the POST
updateOrganisation(mock, store, clientId, orgId, action) ==
  IF clientId = "" \/ orgId = ""
    THEN [store |-> store, next |-> <<>>, pc |-> "get"]
  ELSE IF mock
    THEN LET list == mockLoad(store, clientId)
             next == mapAction(list, orgId, action)
         IN  [store |-> mockSave(store, clientId, next), next |-> next,
              pc |-> "upd_sleep"]
  ELSE [store |-> store, next |-> <<>>, pc |-> "post"]

setOrganisationsMockOnly(mock, store, clientId, list) ==
  IF ~mock THEN store ELSE mockSave(store, clientId, list)

resetOrganisationsToSeedMockOnly(mock, store, clientId) ==
  IF ~mock THEN store ELSE mockSave(store, clientId, seedList)

(***************************************************************************)
(* Strings                                                                 *)
(***************************************************************************)
Upper == "ABCDEFGHIJKLMNOPQRSTUVWXYZ"
Lower == "abcdefghijklmnopqrstuvwxyz"

\* the lower-case letter of each upper-case letter
LowerOf ==
  [c \in {SubSeq(Upper, i, i) : i \in 1..Len(Upper)} |->
     LET i == CHOOSE j \in 1..Len(Upper) : SubSeq(Upper, j, j) = c
     IN  SubSeq(Lower, i, i)]

LowerChar(c) == IF c \in DOMAIN LowerOf THEN LowerOf[c] ELSE c

RECURSIVE toLowerCase(_)
toLowerCase(s) ==
  IF Len(s) = 0 THEN ""
  ELSE LowerChar(SubSeq(s, 1, 1)) \o toLowerCase(SubSeq(s, 2, Len(s)))

startsWith(s, pre) == Len(s) >= Len(pre) /\ SubSeq(s, 1, Len(pre)) = pre

includes(s, sub) ==
  \E i \in 1..(Len(s) - Len(sub) + 1) : SubSeq(s, i, i + Len(sub) - 1) = sub

(***************************************************************************)
(* Viewer-role resolution (useViewerRoleResolved)                          *)
(***************************************************************************)
\* most effect runs (mounts and path changes) of one behaviour
MaxAttempts == 3

Roles == {"family", "carer", "management"}

\* null or undefined
Null == "<null>"

isRole(x) == x \in Roles

\* a || b on strings and null
OrElse(a, b) == IF a = Null \/ a = "" THEN b ELSE a

\* effect 1: the role the hints give, Null when it calls no setRole
hintEffect(flag, ls, ss) ==
  IF isRole(flag) THEN flag
  ELSE LET s == toLowerCase(OrElse(OrElse(ls, ss), ""))
       IN  IF isRole(s) THEN s ELSE Null

\* variant: the dashboard is not taken as a management page
resolveRoleByPath_dashboardNotManagement(path) ==
  LET p == toLowerCase(OrElse(path, ""))
  IN  IF \/ startsWith(p, "/staff_list")
         \/ startsWith(p, "/clients_list")
         \/ startsWith(p, "/organisation")
      THEN "management"
      ELSE IF includes(p, "/carer") THEN "carer"
      ELSE "family"

resolveRoleByPath(path) ==
  LET p == toLowerCase(OrElse(path, ""))
  IN  IF startsWith(p, "/icon_dashboard") THEN "management"
      ELSE IF \/ includes(p, "/icon_dashboard")
              \/ startsWith(p, "/staff_list")
              \/ startsWith(p, "/clients_list")
              \/ startsWith(p, "/manage_care_item")
              \/ startsWith(p, "/register_client")
              \/ startsWith(p, "/requests")
              \/ startsWith(p, "/staff_schedule")
              \/ startsWith(p, "/old_organisation_access")
              \/ startsWith(p, "/organisation")
              \/ startsWith(p, "/partial_dashboard")
              \/ startsWith(p, "/request-log-page")
              \/ startsWith(p, "/icon_dashboard")
              \/ startsWith(p, "/reset_password")
              \/ startsWith(p, "/reset_password_link")
        THEN "management"
      ELSE IF \/ startsWith(p, "/calendar_dashboard")
              \/ startsWith(p, "/client_profile")
              \/ startsWith(p, "/family_dashboard")
        THEN "family"
      ELSE IF includes(p, "/carer") THEN "carer"
      ELSE "family"

\* getViewerRole rejects
Throw == "<throw>"

LookupResults == {"family", Null, Throw}

\* effect 2 after the await: what the settled lookup of an attempt does to
\* the role state, the session hint and the window flag; shown tells
\* whether the component is still on the screen (setRole does nothing on a
\* component that was removed)
lookupSettled(alive, shown, path, res, cur) ==
  IF res # Throw /\ ~alive THEN cur
  ELSE IF res # Throw /\ isRole(res)
    THEN [role |-> IF shown THEN res ELSE cur.role,
          source |-> IF shown THEN "lookup" ELSE cur.source,
          ss |-> res, app |-> res]
  ELSE IF ~alive \/ ~shown THEN cur
  ELSE [cur EXCEPT !.role = resolveRoleByPath(path), !.source = "path"]

\* the cleanup of effect 2 clears the alive flag of its run
effectCleanup(atts) == [i \in 1..Len(atts) |-> [atts[i] EXCEPT !.alive = FALSE]]

\* effect 2 up to the await: a lookup is started with its own alive flag
effectRun(atts, p) == Append(atts, [path |-> p, alive |-> TRUE, pending |-> TRUE])

\* effect 2 after a change of pathname: the cleanup of the previous run,
\* then the new run
effectRerun(atts, p) == effectRun(effectCleanup(atts), p)

\* the value the hook returns
viewerRole == IF role = Null THEN resolveRoleByPath(pathname) ELSE role

Paths == {"/icon_dashboard", "/Carer_Dashboard", "/client_profile/7"}

FlagHints == {Null, "carer", "admin"}
LocalHints == {Null, "", "Family", "admin"}
SessionHints == {Null, "carer"}

\* the latest step of the component: its kind and, for a settled lookup,
\* its result and whether its attempt had been replaced or torn down
Step(kind, result, late) == [step |-> kind, result |-> result, late |-> late]

NoneDone == Step("none", Null, FALSE)

HelpButtonAbsent ==
  /\ mounted = FALSE
  /\ pathname = "/"
  /\ role = Null
  /\ roleSource = "none"
  /\ appRole = Null
  /\ lsRole = Null
  /\ ssRole = Null
  /\ attempts = <<>>
  /\ last = NoneDone
  /\ effectsDue = "none"

\* React runs the effects of a render, and the cleanups of a removal, after
\* it has committed them and before it renders again; calls that settle in
\* between find the state the render left.  effectsDue names what is still
\* to run: "mount" both effects, "path" the cleanup and rerun of effect 2,
\* "unmount" the cleanup of effect 2.

\* first render with path p: useState(null); the hook returns the role
\* inferred from the path
Mount(p) ==
  /\ ~mounted
  /\ effectsDue = "none"
  /\ Len(attempts) < MaxAttempts
  /\ mounted' = TRUE
  /\ pathname' = p
  /\ role' = Null
  /\ roleSource' = "none"
  /\ effectsDue' = "mount"
  /\ last' = Step("mount", Null, FALSE)
  /\ UNCHANGED <<appRole, lsRole, ssRole, attempts>>
  /\ UNCHANGED storeVars
  /\ UNCHANGED <<helpVars, pageVars>>

\* the effects of the first render: effect 1 reads the hints, effect 2
\* starts a lookup
MountEffects ==
  /\ effectsDue = "mount"
  /\ LET hinted == hintEffect(appRole, lsRole, ssRole)
     IN  /\ role' = IF hinted = Null THEN role ELSE hinted
         /\ roleSource' = IF hinted = Null THEN roleSource ELSE "hint"
  /\ attempts' = effectRun(attempts, pathname)
  /\ effectsDue' = "none"
  /\ last' = Step("mount_effects", Null, FALSE)
  /\ UNCHANGED <<mounted, pathname, appRole, lsRole, ssRole>>
  /\ UNCHANGED storeVars
  /\ UNCHANGED <<helpVars, pageVars>>

\* re-render with another path
PathChange(p) ==
  /\ mounted
  /\ effectsDue = "none"
  /\ p # pathname
  /\ Len(attempts) < MaxAttempts
  /\ pathname' = p
  /\ effectsDue' = "path"
  /\ last' = Step("path", Null, FALSE)
  /\ UNCHANGED <<mounted, role, roleSource, appRole, lsRole, ssRole, attempts>>
  /\ UNCHANGED storeVars
  /\ UNCHANGED <<helpVars, pageVars>>

\* the effects of a render with another path: only effect 2 depends on
\* pathname
PathEffects ==
  /\ effectsDue = "path"
  /\ attempts' = effectRerun(attempts, pathname)
  /\ effectsDue' = "none"
  /\ last' = Step("path_effects", Null, FALSE)
  /\ UNCHANGED <<mounted, pathname, role, roleSource, appRole, lsRole, ssRole>>
  /\ UNCHANGED storeVars
  /\ UNCHANGED <<helpVars, pageVars>>

\* the component is taken off the screen: its state is dropped
Unmount ==
  /\ mounted
  /\ effectsDue = "none"
  /\ mounted' = FALSE
  /\ role' = Null
  /\ roleSource' = "none"
  /\ effectsDue' = "unmount"
  /\ last' = Step("unmount", Null, FALSE)
  /\ UNCHANGED <<pathname, appRole, lsRole, ssRole, attempts>>
  /\ UNCHANGED storeVars
  /\ UNCHANGED <<helpVars, pageVars>>

\* the cleanup of effect 2 after the removal
UnmountCleanup ==
  /\ effectsDue = "unmount"
  /\ attempts' = effectCleanup(attempts)
  /\ effectsDue' = "none"
  /\ last' = Step("cleanup", Null, FALSE)
  /\ UNCHANGED <<mounted, pathname, role, roleSource, appRole, lsRole, ssRole>>
  /\ UNCHANGED storeVars
  /\ UNCHANGED <<helpVars, pageVars>>

\* getViewerRole of attempt i settles with res; late: the attempt is not
\* that of the latest render whose effects have run
LookupDone(i, res) ==
  /\ i \in 1..Len(attempts)
  /\ attempts[i].pending
  /\ LET cur == [role |-> role, source |-> roleSource, ss |-> ssRole, app |-> appRole]
         new == lookupSettled(attempts[i].alive, mounted, attempts[i].path, res, cur)
     IN  /\ role' = new.role
         /\ roleSource' = new.source
         /\ ssRole' = new.ss
         /\ appRole' = new.app
  /\ attempts' = [attempts EXCEPT ![i].pending = FALSE]
  /\ last' = Step("settled", res, i < Len(attempts) \/ ~mounted \/ effectsDue # "none")
  /\ UNCHANGED <<mounted, pathname, lsRole, effectsDue>>
  /\ UNCHANGED storeVars
  /\ UNCHANGED <<helpVars, pageVars>>

(***************************************************************************)
(* Help target resolution (FloatingHelpButton)                             *)
(***************************************************************************)
\* most parameters of one query string
MaxParams == 2

Target(pageKey, sectionId) == [pageKey |-> pageKey, sectionId |-> sectionId]

\* null where a Target is expected
NoTarget == Target(Null, Null)

\* URLSearchParams.get: the value of the first pair named name, or null
searchGet(search, name) ==
  IF \E i \in 1..Len(search) : search[i][1] = name
  THEN LET i == CHOOSE j \in 1..Len(search) :
                  /\ search[j][1] = name
                  /\ \A k \in 1..(j - 1) : search[k][1] # name
       IN  search[i][2]
  ELSE Null

\* the four login prefixes and the root
isLoginPath(p) ==
  \/ p = "/"
  \/ p = "/login" \/ startsWith(p, "/login")
  \/ p = "/signin" \/ startsWith(p, "/signin")
  \/ startsWith(p, "/auth/login") \/ startsWith(p, "/auth/signin")

isPreLoginPath(path) ==
  LET p == toLowerCase(OrElse(path, "/"))
  IN  IF isLoginPath(p) THEN TRUE
      ELSE IF p = "/role" \/ startsWith(p, "/role") THEN TRUE
      ELSE IF p = "/organisation" \/ startsWith(p, "/organisation") THEN TRUE
      ELSE IF \/ p = "/signup" \/ startsWith(p, "/signup")
              \/ p = "/register" \/ startsWith(p, "/register")
              \/ p = "/create-account" \/ startsWith(p, "/create-account")
              \/ p = "/choose-role" \/ startsWith(p, "/choose-role")
              \/ p = "/role-selection" \/ startsWith(p, "/role-selection")
              \/ p = "/sign-up" \/ startsWith(p, "/sign-up")
           THEN TRUE
      ELSE FALSE

\* variant: the segment has to end after create or join
inCreateJoin_wholeSegment(p) ==
  \E a \in {"create", "join"} :
    \E i \in 1..(Len(p) - Len("/organisation/" \o a) + 1) :
      LET e == i + Len("/organisation/" \o a)
      IN  /\ SubSeq(p, i, e - 1) = "/organisation/" \o a
          /\ (e = Len(p) + 1 \/ SubSeq(p, e, e) = "/")

\* /\/organisation\/(create|join)/.test(p): no anchor on either side
inCreateJoin(p) ==
  \/ includes(p, "/organisation/create")
  \/ includes(p, "/organisation/join")

roleSelect == Target("prelogin/role", "role-select")
signupFamily == Target("prelogin/signup-family", "signup-family")
signupCarer == Target("prelogin/signup-carer", "signup-carer")
mgmtOrgChoice == Target("prelogin/mgmt-org-choice", "mgmt-org-choice")
signupManagement == Target("prelogin/signup-management", "signup-management")

\* variant: the role-selection route does not read the org parameter
resolvePreLogin_roleRouteIgnoresOrg(path, search) ==
  LET p == toLowerCase(OrElse(path, "/"))
      qrole == toLowerCase(OrElse(searchGet(search, "role"), ""))
      org == toLowerCase(OrElse(searchGet(search, "org"), ""))
  IN  IF ~isPreLoginPath(p) THEN NoTarget
      ELSE IF isLoginPath(p) THEN Target("prelogin/login", "login")
      ELSE IF p = "/role" \/ startsWith(p, "/role")
           THEN IF qrole = "family" THEN signupFamily
                ELSE IF qrole = "carer" THEN signupCarer
                ELSE IF qrole = "management" THEN mgmtOrgChoice
                ELSE roleSelect
      ELSE IF p = "/organisation" \/ startsWith(p, "/organisation")
           THEN IF ~inCreateJoin(p) /\ org = "" THEN mgmtOrgChoice
                ELSE signupManagement
      ELSE roleSelect

resolvePreLogin(path, search) ==
  LET p == toLowerCase(OrElse(path, "/"))
      qrole == toLowerCase(OrElse(searchGet(search, "role"), ""))
      org == toLowerCase(OrElse(searchGet(search, "org"), ""))
  IN  IF ~isPreLoginPath(p) THEN NoTarget
      ELSE IF isLoginPath(p) THEN Target("prelogin/login", "login")
      ELSE IF p = "/role" \/ startsWith(p, "/role")
           THEN IF qrole = "" THEN roleSelect
                ELSE IF qrole = "family" THEN signupFamily
                ELSE IF qrole = "carer" THEN signupCarer
                ELSE IF qrole = "management"
                     THEN IF org = "" THEN mgmtOrgChoice ELSE signupManagement
                ELSE roleSelect
      ELSE IF p = "/organisation" \/ startsWith(p, "/organisation")
           THEN IF ~inCreateJoin(p) /\ org = "" THEN mgmtOrgChoice
                ELSE signupManagement
      ELSE IF startsWith(p, "/signup")
           THEN IF qrole = "family" THEN signupFamily
                ELSE IF qrole = "carer" THEN signupCarer
                ELSE IF qrole = "management"
                     THEN IF org = "" THEN mgmtOrgChoice ELSE signupManagement
                ELSE roleSelect
      ELSE roleSelect

\* /^<prefix>(<alt>|...)(\/|$)/i.test(s)
reSegment(s, prefix, alts) ==
  LET q == toLowerCase(s)
  IN  \E a \in alts :
        /\ startsWith(q, prefix \o a)
        /\ \/ Len(q) = Len(prefix \o a)
           \/ SubSeq(q, Len(prefix \o a) + 1, Len(prefix \o a) + 1) = "/"

reBudget(s) ==
  reSegment(s, "/calendar_dashboard/",
            {"budget_report", "budget-report", "category-cost", "category_cost"})

reTxn(s) ==
  reSegment(s, "/calendar_dashboard/",
            {"transaction_history", "transaction-history", "add_tran", "add-tran",
             "add_transaction", "add-transaction"})

reCalAny(s) == reSegment(s, "/calendar_dashboard", {""})

\* one matcher applied to p: whether it hits, and the target it then returns
Matcher(hit, pageKey, sectionId) == [hit |-> hit, target |-> Target(pageKey, sectionId)]

familyMatchers(p) ==
  << Matcher(reBudget(p), "family/budget-report", "family-budget-report"),
     Matcher(reTxn(p), "family/view-transaction", "family-view-transactions"),
     Matcher(startsWith(p, "/client_profile"),
             "family/client-profile", "family-client-profile"),
     Matcher(startsWith(p, "/family_dashboard/people_list"),
             "family/my-clients", "family-my-clients"),
     Matcher(\/ startsWith(p, "/family_dashboard/manage_organisation_access")
             \/ startsWith(p, "/family_dashboard/manage_org_access"),
             "family/organisation-access", "family-organisation-access"),
     Matcher(startsWith(p, "/family_dashboard/request_of_change_page"),
             "family/request-form", "family-request-form"),
     Matcher(includes(p, "/update_details"),
             "family/update-details", "family-update-details"),
     Matcher(includes(p, "/staff_schedule"),
             "family/staff-schedule", "family-staff-schedule"),
     Matcher(reCalAny(p), "family/client-schedule", "family-client-schedule"),
     Matcher(startsWith(p, "/icon_dashboard"),
             "family/dashboard", "family-dashboard-overview") >>

carerMatchers(p) ==
  << Matcher(includes(p, "/update_details"),
             "carer/update-details", "carer-update-details"),
     Matcher(reBudget(p), "carer/budget-report", "carer-budget-report"),
     Matcher(reTxn(p), "carer/view-transactions", "carer-view-transactions"),
     Matcher(startsWith(p, "/client_profile"),
             "carer/client-profile", "carer-client-profile"),
     Matcher(includes(p, "/update_details"),
             "carer/update-details", "carer-update-details"),
     Matcher(includes(p, "/staff_schedule"),
             "carer/staff-schedule", "carer-staff-schedule"),
     Matcher(reCalAny(p), "carer/client-schedule", "carer-client-schedule"),
     Matcher(startsWith(p, "/icon_dashboard"),
             "carer/dashboard", "carer-dashboard-overview") >>

managementMatchers(p) ==
  << Matcher(includes(p, "/staff_list"),
             "management/staff-list", "management-staff-list"),
     Matcher(includes(p, "/staff_schedule"),
             "management/staff-schedule", "management-staff-schedule"),
     Matcher(includes(p, "/clients_list"),
             "management/client-list", "management-client-list"),
     Matcher(includes(p, "/requests"),
             "management/requests", "management-requests"),
     Matcher(includes(p, "/manage_care_item/edit"),
             "management/edit-care-items", "edit-care-item"),
     Matcher(includes(p, "/manage_care_item/add"),
             "management/add-care-items", "add-care-item"),
     Matcher(includes(p, "/register_client"),
             "management/register-client", "management-register-client"),
     Matcher(includes(p, "/old_organisation_access") \/ includes(p, "/organisation"),
             "management/organisation", "management-organisation"),
     Matcher(includes(p, "/request-log-page"),
             "management/request-log", "management-request-log"),
     Matcher(includes(p, "/update_details"),
             "management/update-details", "management-update-details"),
     Matcher(reBudget(p), "management/budget-report", "management-budget-report"),
     Matcher(reTxn(p), "management/view-transactions", "management-view-transactions"),
     Matcher(reCalAny(p), "management/client-schedule", "management-client-schedule"),
     Matcher(startsWith(p, "/icon_dashboard"),
             "management/dashboard", "management-dashboard-overview") >>

tables(r, p) ==
  IF r = "family" THEN familyMatchers(p)
  ELSE IF r = "carer" THEN carerMatchers(p)
  ELSE managementMatchers(p)

\* the switch after the loop
fallbackTarget(r) ==
  IF r = "carer" THEN Target("carer/dashboard", "carer-dashboard-overview")
  ELSE IF r = "management"
       THEN Target("management/dashboard", "management-dashboard-overview")
  ELSE Target("family/dashboard", "family-dashboard-overview")

\* variant: the last hit of the table is returned
firstHit_lastHit(table) ==
  IF \E i \in 1..Len(table) : table[i].hit
  THEN LET i == CHOOSE j \in 1..Len(table) :
                  /\ table[j].hit
                  /\ \A k \in (j + 1)..Len(table) : ~table[k].hit
       IN  table[i].target
  ELSE NoTarget

\* the loop over the role's table: the first hit is returned
firstHit(table) ==
  IF \E i \in 1..Len(table) : table[i].hit
  THEN LET i == CHOOSE j \in 1..Len(table) :
                  /\ table[j].hit
                  /\ \A k \in 1..(j - 1) : ~table[k].hit
       IN  table[i].target
  ELSE NoTarget

\* variant: the role's table is consulted before the pre-login rules
resolveByRoleAndPath_tablesFirst(r, path, search) ==
  LET p == toLowerCase(OrElse(path, "/"))
      hit == firstHit(tables(r, p))
      pre == resolvePreLogin(path, search)
  IN  IF hit # NoTarget THEN hit
      ELSE IF pre # NoTarget THEN pre
      ELSE fallbackTarget(r)

resolveByRoleAndPath(r, path, search) ==
  LET pre == resolvePreLogin(path, search)
  IN  IF pre # NoTarget THEN pre
      ELSE LET p == toLowerCase(OrElse(path, "/"))
               hit == firstHit(tables(r, p))
           IN  IF hit # NoTarget THEN hit ELSE fallbackTarget(r)

\* query parameters a link of the application can carry
HelpParams ==
  { <<"role", "family">>, <<"role", "Carer">>, <<"role", "management">>,
    <<"role", "admin">>, <<"role", "">>,
    <<"org", "create">>, <<"org", "">>, <<"ref", "x">> }

HelpSearches == SeqsUpTo(HelpParams, MaxParams)

HelpPaths ==
  { "", "/", "/Login", "/auth/signin", "/role", "/Role/details", "/role-selection",
    "/organisation", "/organisation/create", "/organisation/created",
    "/organisation/join/x", "/organisations", "/signup", "/register_client",
    "/create-account",
    "/icon_dashboard", "/staff_list/123", "/staff_schedule", "/clients_list",
    "/requests", "/manage_care_item/edit", "/manage_care_item/add",
    "/old_organisation_access", "/request-log-page", "/update_details",
    "/client_profile/7", "/family_dashboard/people_list",
    "/family_dashboard/manage_org_access",
    "/family_dashboard/request_of_change_page",
    "/calendar_dashboard", "/calendar_dashboard/budget_report",
    "/Calendar_Dashboard/Category-Cost/2", "/calendar_dashboard/budget_reports",
    "/calendar_dashboard/transaction-history", "/calendar_dashboard/add_transaction",
    "/calendar_dashboard/budget_report/update_details",
    "/calendar_dashboard/staff_schedule", "/partial_dashboard" }

HelpInputs == [role : Roles, path : HelpPaths, search : HelpSearches]

NoHelpInput == [role |-> "family", path |-> "/", search |-> <<>>]

HelpTargetUnasked ==
  /\ helpIn = NoHelpInput
  /\ helpOut = NoTarget

\* one render of the button: usePathname() || '/', then the memoised target
RenderHelpButton ==
  /\ helpOut = NoTarget
  /\ helpOut' = resolveByRoleAndPath(helpIn.role, OrElse(helpIn.path, "/"), helpIn.search)
  /\ UNCHANGED helpIn
  /\ UNCHANGED <<storeVars, roleVars, pageVars>>

(***************************************************************************)
(* The organisation-access page (ManageOrganisationAccessPage).  A handler *)
(* runs without interruption from one await to the next; reqs holds the    *)
(* asynchronous calls the page has started, each with the client id its    *)
(* closure captured and the await it is at.  shownFor is the client whose  *)
(* list orgs holds, pageLast the latest step and the list held before it.  *)
(* React runs the load effect after it has committed the render whose      *)
(* activeClient?.id is new, and before it renders again; loadDue tells     *)
(* that it has still to run.  A call of setOrgs, setLoading or             *)
(* setErrorText changes the state at once and the screen only when React   *)
(* renders again: rendered is the state the latest committed render drew,  *)
(* and its buttons are the ones a user can press.  Before it renders       *)
(* again React runs the load effect that is still due, and a press of a    *)
(* button ends with that render.                                           *)
(***************************************************************************)
\* most asynchronous calls (loads and updates) of one behaviour
MaxRequests == 3

PageClients == {"c1", "c2"}

toUI(s) == IF s = "active" THEN "approved" ELSE s

\* the list the load effect seeds in mock mode
seeded ==
  [i \in 1..Len(MOCK_ORGS) |->
     [id |-> MOCK_ORGS[i].id, name |-> MOCK_ORGS[i].name,
      status |-> toUI(MOCK_ORGS[i].status)]]

\* the answers a fetch of the page may get; a successful body is a list
PageFetches == {r \in FetchResponses : r.kind = "ok" => r.isArray}

\* orgs, loading and errorText as one value
PageState(list, busy, err) == [orgs |-> list, loading |-> busy, errorText |-> err]

\* the load effect up to its first await, for client id c
loadEffect(mock, c, cur) ==
  IF c = Null THEN PageState(<<>>, FALSE, "No client selected yet.")
  ELSE IF mock THEN PageState(seeded, FALSE, Null)
  ELSE PageState(cur.orgs, TRUE, Null)

\* variant: a failed load keeps the list
loadSettled_keepsList(resp, cur) ==
  IF resp.kind = "ok" THEN PageState(resp.data, FALSE, cur.errorText)
  ELSE PageState(cur.orgs, FALSE, "Failed to load organisations.")

\* the load effect after its fetch: try, catch and finally
loadSettled(resp, cur) ==
  IF resp.kind = "ok" THEN PageState(resp.data, FALSE, cur.errorText)
  ELSE PageState(<<>>, FALSE, "Failed to load organisations.")

\* the local transition of updateOrgStatus in mock mode
updateLocal(list, orgId, action) ==
  [i \in 1..Len(list) |->
     IF list[i].id # orgId THEN list[i]
     ELSE IF action = "approve" THEN [list[i] EXCEPT !.status = "approved"]
     ELSE IF action = "revoke" THEN [list[i] EXCEPT !.status = "revoked"]
     ELSE IF action = "reject" THEN [list[i] EXCEPT !.status = "revoked"]
     ELSE list[i]]

\* updateOrgStatus after its POST: on failure catch and finally
postSettled(resp, cur) ==
  IF resp.kind = "ok" THEN cur
  ELSE PageState(cur.orgs, FALSE, "Failed to update organisation.")

\* updateOrgStatus after its re-fetch: try, catch and finally
listSettled(resp, cur) ==
  IF resp.kind = "ok" THEN PageState(resp.data, FALSE, cur.errorText)
  ELSE PageState(cur.orgs, FALSE, "Failed to update organisation.")

\* the buttons the page renders for a record: none while loading or while
\* an error is shown, Revoke on approved, Approve and Reject on pending
buttonShown(cur, orgId, action) ==
  /\ ~cur.loading
  /\ cur.errorText = Null
  /\ \E i \in 1..Len(cur.orgs) :
       /\ cur.orgs[i].id = orgId
       /\ \/ cur.orgs[i].status = "approved" /\ action = "revoke"
          \/ cur.orgs[i].status = "pending" /\ action \in {"approve", "reject"}

PageStep(kind, ok, c, held) == [step |-> kind, ok |-> ok, clientId |-> c, held |-> held]

\* the state of the page before it is rendered
NoPageStep == PageStep("none", TRUE, Null, <<>>)

PageAbsent ==
  /\ activeClient = Null
  /\ orgs = <<>>
  /\ loading = FALSE
  /\ errorText = Null
  /\ reqs = <<>>
  /\ shownFor = Null
  /\ pageLast = NoPageStep
  /\ loadDue = FALSE
  /\ rendered = PageState(<<>>, FALSE, Null)

PageNow == PageState(orgs, loading, errorText)

SetPage(new) ==
  /\ orgs' = new.orgs
  /\ loading' = new.loading
  /\ errorText' = new.errorText

Request(op, pc, c, orgId, action) ==
  [op |-> op, pc |-> pc, clientId |-> c, orgId |-> orgId, action |-> action]

\* first render, the context holding client c or none: useState([]),
\* useState(false), useState(null); the load effect is due
PageMount(c) ==
  /\ pageLast.step = "none"
  /\ activeClient' = c
  /\ loadDue' = TRUE
  /\ pageLast' = PageStep("mount", TRUE, c, orgs)
  /\ rendered' = PageNow
  /\ UNCHANGED <<orgs, loading, errorText, reqs, shownFor>>
  /\ UNCHANGED <<storeVars, roleVars, helpVars>>

\* the context holds another client and the page renders: activeClient?.id
\* has changed, the load effect is due
ClientChange(c) ==
  /\ pageLast.step # "none"
  /\ ~loadDue
  /\ c # activeClient
  /\ Len(reqs) < MaxRequests
  /\ activeClient' = c
  /\ loadDue' = TRUE
  /\ pageLast' = PageStep("change", TRUE, c, orgs)
  /\ rendered' = PageNow
  /\ UNCHANGED <<orgs, loading, errorText, reqs, shownFor>>
  /\ UNCHANGED <<storeVars, roleVars, helpVars>>

\* the load effect when it is due: what it sets, the fetch it starts and
\* the client whose list is then held
flushState(due, cur) == IF due THEN loadEffect(isMock, activeClient, cur) ELSE cur

flushRequests(due, rs) ==
  IF due /\ activeClient # Null /\ ~isMock
  THEN Append(rs, Request("load", "get", activeClient, "", ""))
  ELSE rs

flushShownFor(due) ==
  IF ~due THEN shownFor
  ELSE IF activeClient = Null THEN Null
  ELSE IF isMock THEN activeClient ELSE shownFor

\* a state setter was called since the latest render: React runs the load
\* effect if it is still due and renders the page again, with the same
\* client and the state as it then is
Render ==
  /\ pageLast.step # "none"
  /\ rendered # PageNow
  /\ SetPage(flushState(loadDue, PageNow))
  /\ reqs' = flushRequests(loadDue, reqs)
  /\ shownFor' = flushShownFor(loadDue)
  /\ rendered' = flushState(loadDue, PageNow)
  /\ loadDue' = FALSE
  /\ pageLast' = IF loadDue THEN PageStep("effect", TRUE, activeClient, orgs) ELSE pageLast
  /\ UNCHANGED activeClient
  /\ UNCHANGED <<storeVars, roleVars, helpVars>>

\* React runs the load effect of the latest render, up to its first await
RunLoadEffect ==
  /\ loadDue
  /\ SetPage(flushState(TRUE, PageNow))
  /\ reqs' = flushRequests(TRUE, reqs)
  /\ shownFor' = flushShownFor(TRUE)
  /\ loadDue' = FALSE
  /\ pageLast' = PageStep("effect", TRUE, activeClient, orgs)
  /\ UNCHANGED <<activeClient, rendered>>
  /\ UNCHANGED <<storeVars, roleVars, helpVars>>

\* the fetch of load i settles
LoadSettles(i, resp) ==
  /\ i \in 1..Len(reqs)
  /\ reqs[i].op = "load"
  /\ reqs[i].pc = "get"
  /\ SetPage(loadSettled(resp, PageNow))
  /\ reqs' = [reqs EXCEPT ![i].pc = "done"]
  /\ shownFor' = IF resp.kind = "ok" THEN reqs[i].clientId ELSE Null
  /\ pageLast' = PageStep("load", resp.kind = "ok", reqs[i].clientId, orgs)
  /\ UNCHANGED <<activeClient, loadDue, rendered>>
  /\ UNCHANGED <<storeVars, roleVars, helpVars>>

\* updateOrgStatus up to its first await, on the state as it is now
updatePressed(cur, orgId, action) ==
  IF isMock THEN PageState(updateLocal(cur.orgs, orgId, action), cur.loading, cur.errorText)
  ELSE PageState(cur.orgs, TRUE, Null)

\* a button of the latest render calls updateOrgStatus, which returns at
\* once without a client.  The press is a discrete event: when the handler
\* has returned React runs the load effect if it is still due and renders
\* the state the press has set, before any other event
UpdateOrgStatus(orgId, action) ==
  /\ pageLast.step # "none"
  /\ buttonShown(rendered, orgId, action)
  /\ activeClient # Null
  /\ isMock \/ Len(reqs) + (IF loadDue THEN 1 ELSE 0) < MaxRequests
  /\ LET pressed == updatePressed(PageNow, orgId, action)
         posted == IF isMock THEN reqs
                   ELSE Append(reqs, Request("update", "post", activeClient, orgId, action))
     IN  /\ SetPage(flushState(loadDue, pressed))
         /\ rendered' = flushState(loadDue, pressed)
         /\ reqs' = flushRequests(loadDue, posted)
  /\ shownFor' = flushShownFor(loadDue)
  /\ loadDue' = FALSE
  /\ pageLast' = PageStep("update", TRUE, activeClient, orgs)
  /\ UNCHANGED activeClient
  /\ UNCHANGED <<storeVars, roleVars, helpVars>>

\* the POST of update i settles
PostSettles(i, resp) ==
  /\ i \in 1..Len(reqs)
  /\ reqs[i].op = "update"
  /\ reqs[i].pc = "post"
  /\ SetPage(postSettled(resp, PageNow))
  /\ reqs' = [reqs EXCEPT ![i].pc = IF resp.kind = "ok" THEN "get" ELSE "done"]
  /\ pageLast' = PageStep("post", resp.kind = "ok", reqs[i].clientId, orgs)
  /\ UNCHANGED <<activeClient, shownFor, loadDue, rendered>>
  /\ UNCHANGED <<storeVars, roleVars, helpVars>>

\* the re-fetch of update i settles
ListSettles(i, resp) ==
  /\ i \in 1..Len(reqs)
  /\ reqs[i].op = "update"
  /\ reqs[i].pc = "get"
  /\ SetPage(listSettled(resp, PageNow))
  /\ reqs' = [reqs EXCEPT ![i].pc = "done"]
  /\ shownFor' = IF resp.kind = "ok" THEN reqs[i].clientId ELSE shownFor
  /\ pageLast' = PageStep("list", resp.kind = "ok", reqs[i].clientId, orgs)
  /\ UNCHANGED <<activeClient, loadDue, rendered>>
  /\ UNCHANGED <<storeVars, roleVars, helpVars>>

(***************************************************************************)
(* Calls of the data layer.  A call runs without interruption from one     *)
(* await to the next: the mock branch of updateOrganisation loads, maps    *)
(* and saves, then awaits sleep(80) and returns; getOrganisations awaits   *)
(* sleep(100) and then loads; the real branch awaits the POST and then the *)
(* GET.  Other calls run while a call waits.  sites holds the calls of     *)
(* updateOrganisation and getOrganisations in flight, one per call site;   *)
(* writer[k] is the call site whose mockSave on key k came last.  call is the latest call that   *)
(* has settled, with its outcome, the item it left under its client's key, *)
(* and whether no other call wrote the store while it was in flight; hist  *)
(* records how it relates to the settled call before it.                   *)
(***************************************************************************)
NoCall == [op |-> "none", clientId |-> "", orgId |-> "", action |-> "", list |-> <<>>,
           ret |-> RetVoid, alone |-> TRUE, stored |-> RawNull]

SameCall(a, b) ==
  /\ a.op = b.op
  /\ a.clientId = b.clientId
  /\ a.orgId = b.orgId
  /\ a.action = b.action
  /\ a.list = b.list

\* again: the same call as the one before; afterSet: follows a
\* setOrganisationsMockOnly for the same client
History(before, now) ==
  [again |-> SameCall(before, now),
   afterSet |-> before.op = "set" /\ before.clientId = now.clientId]

InitialItems == {RawNull, RawEmpty, RawMalformed, RawObject}

\* the stores a run starts from: any item under a client's key; none under
\* the key of the empty client id, which no function ever reads
InitialStores == {f \in [StoreKeys -> InitialItems] : f[lsKey("")] = RawNull}

\* two call sites of the page, each awaiting at most one call at a time
Sites == {"s1", "s2"}

IdleSite == [pc |-> "idle", op |-> "update", clientId |-> "", orgId |-> "", action |-> "",
             next |-> <<>>, saved |-> FALSE, ret |-> RetVoid, alone |-> TRUE]

InFlight(site) == site.pc \notin {"idle", "done"}

NoCallsInFlight ==
  /\ sites = [s \in Sites |-> IdleSite]
  /\ writer = [k \in StoreKeys |-> "none"]

NoCallsMade ==
  /\ call = NoCall
  /\ hist = [again |-> FALSE, afterSet |-> FALSE]

\* the data layer runs in a browser or, window being undefined, on a server
InitStore ==
  /\ isMock \in BOOLEAN
  /\ hasWindow \in BOOLEAN
  /\ localStorage \in InitialStores
  /\ NoCallsMade
  /\ NoCallsInFlight
  /\ HelpButtonAbsent
  /\ HelpTargetUnasked
  /\ PageAbsent

Record(c) ==
  /\ call' = c
  /\ hist' = History(call, c)

\* a call that settles in the step it is made in
Settled(op, c, l, ret, store) ==
  [op |-> op, clientId |-> c, orgId |-> "", action |-> "", list |-> l,
   ret |-> ret, alone |-> TRUE, stored |-> store[lsKey(c)]]

\* the call of a site that has settled
Completed(site, store) ==
  [op |-> site.op, clientId |-> site.clientId, orgId |-> site.orgId,
   action |-> site.action, list |-> <<>>, ret |-> site.ret,
   alone |-> site.alone, stored |-> store[lsKey(site.clientId)]]

\* the sites after a step of another call (of site me, or of no site) that
\* left the store as store2: calls in flight have seen another call write
Disturbed(ss, me, store2) ==
  [s \in Sites |->
     IF s # me /\ InFlight(ss[s]) /\ store2 # localStorage
       THEN [ss[s] EXCEPT !.alone = FALSE]
       ELSE ss[s]]

\* site s takes a step of its call to site: with log, a call that has
\* returned is recorded and its site freed; without, the site keeps it
Advance(s, site, store2, log) ==
  /\ sites' = [Disturbed(sites, s, store2) EXCEPT
                 ![s] = IF log /\ site.pc = "done" THEN IdleSite ELSE site]
  /\ IF log /\ site.pc = "done"
       THEN Record(Completed(site, store2))
       ELSE UNCHANGED <<call, hist>>

SetOrganisationsMockOnly(c, l) ==
  LET store2 == setOrganisationsMockOnly(isMock, localStorage, c, l)
  IN  /\ localStorage' = store2
      /\ sites' = Disturbed(sites, "none", store2)
      /\ Record(Settled("set", c, l, RetVoid, store2))
      /\ UNCHANGED <<isMock, hasWindow, writer>>
      /\ UNCHANGED roleVars
      /\ UNCHANGED <<helpVars, pageVars>>

ResetOrganisationsToSeedMockOnly(c) ==
  LET store2 == resetOrganisationsToSeedMockOnly(isMock, localStorage, c)
  IN  /\ localStorage' = store2
      /\ sites' = Disturbed(sites, "none", store2)
      /\ Record(Settled("reset", c, <<>>, RetVoid, store2))
      /\ UNCHANGED <<isMock, hasWindow, writer>>
      /\ UNCHANGED roleVars
      /\ UNCHANGED <<helpVars, pageVars>>

\* getOrganisations up to its first await
getBegin(site, c) ==
  IF c = "" THEN [site EXCEPT !.pc = "done", !.ret = RetList(<<>>)]
  ELSE IF isMock THEN [site EXCEPT !.pc = "get_sleep"]
  ELSE [site EXCEPT !.pc = "get_fetch"]

\* updateOrganisation up to its first await, called from site s
Begin(s, c, o, a, log) ==
  /\ LET fresh == [IdleSite EXCEPT !.clientId = c, !.orgId = o, !.action = a]
         r == updateOrganisation(isMock, localStorage, c, o, a)
         site == IF r.pc = "get" THEN getBegin(fresh, c)
                 ELSE [fresh EXCEPT !.pc = r.pc, !.next = r.next,
                                    !.saved = (r.pc = "upd_sleep" /\ hasWindow)]
     IN  /\ localStorage' = r.store
         /\ writer' = IF site.saved THEN [writer EXCEPT ![lsKey(c)] = s] ELSE writer
         /\ Advance(s, site, r.store, log)
  /\ UNCHANGED <<isMock, hasWindow>>
  /\ UNCHANGED roleVars
  /\ UNCHANGED <<helpVars, pageVars>>

\* site s's call goes on after its await, to site
Resume(s, site, log) ==
  /\ Advance(s, site, localStorage, log)
  /\ UNCHANGED <<isMock, hasWindow, localStorage, writer>>
  /\ UNCHANGED roleVars
  /\ UNCHANGED <<helpVars, pageVars>>

\* sleep(80) is over: the mock branch returns next
updateWake(site) == [site EXCEPT !.pc = "done", !.ret = RetList(site.next)]

\* sleep(100) is over: getOrganisations loads and returns
getWake(site, store) ==
  [site EXCEPT !.pc = "done", !.ret = RetList(mockLoad(store, site.clientId))]

\* the POST is answered
postDone(site, resp) ==
  IF resp.kind # "ok"
    THEN [site EXCEPT !.pc = "done", !.ret = RetThrow]
    ELSE getBegin(site, site.clientId)

\* the GET is answered
getFetched(site, store, resp) ==
  [site EXCEPT !.pc = "done",
               !.ret = getOrganisations(FALSE, store, site.clientId, resp)]

(***************************************************************************)
(* One caller of updateOrganisation and one of getOrganisations, each      *)
(* awaiting its call before the next, with the calls of the other          *)
(* functions falling anywhere in between.                                  *)
(***************************************************************************)
StoreSite == "s1"

\* the call site of the direct calls of getOrganisations
GetSite == "s2"

UpdateOrganisation(c, o, a) ==
  /\ ~InFlight(sites[StoreSite])
  /\ Begin(StoreSite, c, o, a, TRUE)

\* getOrganisations up to its first await, called directly
GetOrganisations(c) ==
  /\ ~InFlight(sites[GetSite])
  /\ Resume(GetSite, getBegin([IdleSite EXCEPT !.op = "get", !.clientId = c], c), TRUE)

UpdateSlept ==
  /\ sites[StoreSite].pc = "upd_sleep"
  /\ Resume(StoreSite, updateWake(sites[StoreSite]), TRUE)

GetSlept(s) ==
  /\ sites[s].pc = "get_sleep"
  /\ Resume(s, getWake(sites[s], localStorage), TRUE)

PostAnswered(resp) ==
  /\ sites[StoreSite].pc = "post"
  /\ Resume(StoreSite, postDone(sites[StoreSite], resp), TRUE)

GetAnswered(s, resp) ==
  /\ sites[s].pc = "get_fetch"
  /\ Resume(s, getFetched(sites[s], localStorage, resp), TRUE)

NextStore ==
  \/ \E c \in ClientIds : GetOrganisations(c)
  \/ \E c \in ClientIds, o \in OrgIds, a \in Actions : UpdateOrganisation(c, o, a)
  \/ UpdateSlept
  \/ \E s \in {StoreSite, GetSite} : GetSlept(s)
  \/ \E resp \in FetchResponses : PostAnswered(resp)
  \/ \E s \in {StoreSite, GetSite}, resp \in FetchResponses : GetAnswered(s, resp)
  \/ \E c \in ClientIds, l \in InputLists : SetOrganisationsMockOnly(c, l)
  \/ \E c \in ClientIds : ResetOrganisationsToSeedMockOnly(c)

SpecStore == InitStore /\ [][NextStore]_vars

(***************************************************************************)
(* Overlapping updateOrganisation calls from two call sites.               *)
(***************************************************************************)
InitRace ==
  /\ isMock \in BOOLEAN
  /\ hasWindow \in BOOLEAN
  /\ localStorage \in InitialStores
  /\ NoCallsMade
  /\ NoCallsInFlight
  /\ HelpButtonAbsent
  /\ HelpTargetUnasked
  /\ PageAbsent

UpdateBegin(s, c, o, a) ==
  /\ ~InFlight(sites[s])
  /\ Begin(s, c, o, a, FALSE)

UpdateWake(s) ==
  /\ sites[s].pc = "upd_sleep"
  /\ Resume(s, updateWake(sites[s]), FALSE)

GetWake(s) ==
  /\ sites[s].pc = "get_sleep"
  /\ Resume(s, getWake(sites[s], localStorage), FALSE)

PostDone(s, resp) ==
  /\ sites[s].pc = "post"
  /\ Resume(s, postDone(sites[s], resp), FALSE)

GetFetched(s, resp) ==
  /\ sites[s].pc = "get_fetch"
  /\ Resume(s, getFetched(sites[s], localStorage, resp), FALSE)

NextRace ==
  \/ \E s \in Sites, c \in ClientIds, o \in OrgIds, a \in Actions : UpdateBegin(s, c, o, a)
  \/ \E s \in Sites : UpdateWake(s)
  \/ \E s \in Sites : GetWake(s)
  \/ \E s \in Sites, resp \in FetchResponses : PostDone(s, resp)
  \/ \E s \in Sites, resp \in FetchResponses : GetFetched(s, resp)

SpecRace == InitRace /\ [][NextRace]_vars

(***************************************************************************)
(* The help button alone: its hints are whatever earlier pages left.       *)
(***************************************************************************)
InitRole ==
  /\ isMock = TRUE
  /\ hasWindow = TRUE
  /\ localStorage = [k \in StoreKeys |-> RawNull]
  /\ NoCallsMade
  /\ NoCallsInFlight
  /\ mounted = FALSE
  /\ pathname = "/"
  /\ role = Null
  /\ roleSource = "none"
  /\ appRole \in FlagHints
  /\ lsRole \in LocalHints
  /\ ssRole \in SessionHints
  /\ attempts = <<>>
  /\ last = NoneDone
  /\ effectsDue = "none"
  /\ HelpTargetUnasked
  /\ PageAbsent

NextRole ==
  \/ \E p \in Paths : Mount(p)
  \/ MountEffects
  \/ \E p \in Paths : PathChange(p)
  \/ PathEffects
  \/ Unmount
  \/ UnmountCleanup
  \/ \E i \in 1..MaxAttempts, res \in LookupResults : LookupDone(i, res)

SpecRole == InitRole /\ [][NextRole]_vars

\* the help button where no hint names a role, every lookup settling
\* (getViewerRole returns a promise that resolves or rejects) and the
\* effects of every render run (React runs them once it has committed)
InitRoleNoHint ==
  /\ InitRole
  /\ appRole = Null
  /\ ssRole = Null
  /\ lsRole \in {Null, "admin"}

LookupSettles ==
  \E i \in 1..MaxAttempts, res \in LookupResults : LookupDone(i, res)

EffectsRun == MountEffects \/ PathEffects \/ UnmountCleanup

SpecRoleFair ==
  InitRoleNoHint /\ [][NextRole]_vars /\ WF_vars(LookupSettles) /\ WF_vars(EffectsRun)

(***************************************************************************)
(* The help target as a function of role, path and query string.           *)
(***************************************************************************)
InitHelp ==
  /\ isMock = TRUE
  /\ hasWindow = TRUE
  /\ localStorage = [k \in StoreKeys |-> RawNull]
  /\ NoCallsMade
  /\ NoCallsInFlight
  /\ HelpButtonAbsent
  /\ PageAbsent
  /\ helpIn \in HelpInputs
  /\ helpOut = NoTarget

NextHelp == RenderHelpButton

SpecHelp == InitHelp /\ [][NextHelp]_vars

(***************************************************************************)
(* The organisation-access page alone.                                     *)
(***************************************************************************)
InitPage ==
  /\ isMock \in BOOLEAN
  /\ hasWindow = TRUE
  /\ localStorage = [k \in StoreKeys |-> RawNull]
  /\ NoCallsMade
  /\ NoCallsInFlight
  /\ HelpButtonAbsent
  /\ HelpTargetUnasked
  /\ PageAbsent

NextPage ==
  \/ \E c \in PageClients \cup {Null} : PageMount(c)
  \/ \E c \in PageClients : ClientChange(c)
  \/ Render
  \/ RunLoadEffect
  \/ \E o \in {"o1", "o2", "o3"}, a \in Actions : UpdateOrgStatus(o, a)
  \/ \E i \in 1..MaxRequests, resp \in PageFetches : LoadSettles(i, resp)
  \/ \E i \in 1..MaxRequests, resp \in PageFetches : PostSettles(i, resp)
  \/ \E i \in 1..MaxRequests, resp \in PageFetches : ListSettles(i, resp)

SpecPage == InitPage /\ [][NextPage]_vars

(***************************************************************************)
(* Properties of the data layer                                            *)
(***************************************************************************)
IsRevoke(c) == c.op = "update" /\ c.action = "revoke"

\* this step settles a call of the named function
CallSettles(op) == call' # call /\ call'.op = op

\* this step is site s's updateOrganisation up to sleep(80): load, map, save
Begins(s) == ~InFlight(sites[s]) /\ sites'[s].pc = "upd_sleep"

\* this step is a direct getOrganisations called, up to its await
GetBegins == ~InFlight(sites[GetSite]) /\ InFlight(sites'[GetSite])

\* this step is site s's updateOrganisation returning after sleep(80)
Returns(s) == sites[s].pc = "upd_sleep" /\ ~InFlight(sites'[s])

\* C1: in mock mode a second updateOrganisation(clientId, orgId, 'revoke')
\* right after a first one, no other call writing the store meanwhile,
\* leaves the persisted list of the client and the returned list as the
\* first call left them.
C1_RevokeTwiceIsRevokeOnce ==
  [][ (/\ isMock
       /\ IsRevoke(call) /\ IsRevoke(call')
       /\ call'.clientId = call.clientId
       /\ call'.orgId = call.orgId
       /\ call.alone /\ call'.alone)
      => (/\ call'.stored = call.stored
          /\ call'.ret = call.ret) ]_vars

C1_Witness ==
  /\ isMock /\ hasWindow
  /\ IsRevoke(call) /\ hist.again /\ call.alone
  /\ call.clientId # "" /\ call.orgId # ""
  /\ call.ret.tag = "list"
  /\ \E i \in 1..Len(call.ret.value) :
       /\ call.ret.value[i].id = call.orgId
       /\ call.ret.value[i].status = "revoked"
  /\ call.stored = JSONstringify(call.ret.value)
  /\ localStorage[lsKey(call.clientId)] = call.stored

\* C2 as stated: for every client id (the empty one included) and every
\* list L, setOrganisationsMockOnly(clientId, L) in mock mode followed by
\* getOrganisations(clientId), nothing writing the client's item between
\* the set and the return of the get, returns L.
C2_RoundTripAnyClient ==
  [][ (/\ isMock
       /\ call.op = "set" /\ CallSettles("get")
       /\ call'.clientId = call.clientId
       /\ call'.alone
       /\ localStorage[lsKey(call.clientId)] = call.stored)
      => call'.ret = RetList(call.list) ]_vars

\* C2 amended: in mock mode, in a browser (window defined) and for a
\* non-empty client id, setOrganisationsMockOnly(clientId, L) followed by
\* getOrganisations(clientId), nothing writing the client's item between
\* the set and the return of the get, returns L, also when L is empty.
C2_RoundTrip ==
  [][ (/\ isMock /\ hasWindow
       /\ call.op = "set" /\ CallSettles("get")
       /\ call'.clientId = call.clientId
       /\ call.clientId # ""
       /\ call'.alone
       /\ localStorage[lsKey(call.clientId)] = call.stored)
      => call'.ret = RetList(call.list) ]_vars

C2_Witness ==
  /\ isMock /\ hasWindow
  /\ call.op = "get" /\ hist.afterSet /\ call.alone
  /\ call.clientId # ""
  /\ call.ret = RetList(<<>>)
  /\ call.stored = JSONstringify(<<>>)

\* the seed with every 'active' replaced by 'approved', nothing else changed
IsTranslatedSeed(l) ==
  /\ Len(l) = Len(MOCK_ORGS)
  /\ \A i \in 1..Len(l) :
       /\ l[i].id = MOCK_ORGS[i].id
       /\ l[i].name = MOCK_ORGS[i].name
       /\ l[i].status = IF MOCK_ORGS[i].status = "active" THEN "approved"
                        ELSE MOCK_ORGS[i].status

\* C3: in mock mode getOrganisations for a non-empty client id that finds
\* no persisted item when it loads returns the seed with 'active' shown as
\* 'approved' and every other status as it is; neither its call nor its
\* return writes to the store.
C3_SeedWhenNothingPersisted ==
  [][ /\ (/\ isMock
          /\ CallSettles("get")
          /\ call'.clientId # ""
          /\ localStorage[lsKey(call'.clientId)] = RawNull)
         => (/\ call'.ret.tag = "list"
             /\ IsTranslatedSeed(call'.ret.value)
             /\ localStorage' = localStorage)
      /\ (isMock /\ GetBegins) => localStorage' = localStorage ]_vars

C3_Witness ==
  /\ isMock
  /\ call.op = "get"
  /\ call.clientId # ""
  /\ call.stored = RawNull
  /\ localStorage[lsKey(call.clientId)] = RawNull
  /\ call.ret.tag = "list"
  /\ \E i \in 1..Len(call.ret.value) : call.ret.value[i].status = "approved"

TargetStatus(action) == IF action = "approve" THEN "approved" ELSE "revoked"

\* the list next is the list before with the status of every record whose
\* id is orgId set to the action's target: same length, ids, names, order
IsMapped(before, next, orgId, action) ==
  /\ Len(next) = Len(before)
  /\ \A i \in 1..Len(before) :
       IF before[i].id = orgId
         THEN /\ next[i].id = before[i].id
              /\ next[i].name = before[i].name
              /\ next[i].status = TargetStatus(action)
         ELSE next[i] = before[i]

\* C4 as stated: in mock mode updateOrganisation with non-empty ids
\* persists and returns the client's list as it was before the call (same
\* length, ids, names and order) except that each record whose id is orgId
\* has status approved (approve) or revoked (revoke, reject); no record is
\* removed and no other client's item is touched.
C4_UpdatePersistsAlways ==
  [][ \A s \in Sites :
        /\ (isMock /\ Begins(s))
           => LET k == lsKey(sites'[s].clientId)
                  before == mockLoad(localStorage, sites'[s].clientId)
                  next == sites'[s].next
              IN  /\ IsMapped(before, next, sites'[s].orgId, sites'[s].action)
                  /\ localStorage'[k] = JSONstringify(next)
                  /\ \A j \in StoreKeys \ {k} : localStorage'[j] = localStorage[j]
        /\ (isMock /\ Returns(s))
           => /\ call'.op = "update"
              /\ call'.ret = RetList(sites[s].next)
              /\ localStorage' = localStorage ]_vars

\* C4 amended: in mock mode updateOrganisation with non-empty ids returns
\* the client's list as it was before the call (same length, ids, names and
\* order) except that each record whose id is orgId has status approved
\* (approve) or revoked (revoke, reject); no record is removed.  In a
\* browser (window defined) it has persisted that list under the client's
\* key before it waits, touching no other client's item; with no window it
\* persists nothing.
C4_UpdateFrame ==
  [][ \A s \in Sites :
        /\ (isMock /\ Begins(s))
           => LET k == lsKey(sites'[s].clientId)
                  before == mockLoad(localStorage, sites'[s].clientId)
                  next == sites'[s].next
              IN  /\ IsMapped(before, next, sites'[s].orgId, sites'[s].action)
                  /\ IF hasWindow
                       THEN /\ localStorage'[k] = JSONstringify(next)
                            /\ \A j \in StoreKeys \ {k} :
                                 localStorage'[j] = localStorage[j]
                       ELSE localStorage' = localStorage
        /\ (isMock /\ Returns(s))
           => /\ call'.op = "update"
              /\ call'.ret = RetList(sites[s].next)
              /\ localStorage' = localStorage ]_vars

C4_Witness ==
  /\ isMock /\ hasWindow
  /\ call.op = "update" /\ call.action = "reject" /\ call.alone
  /\ call.clientId # "" /\ call.orgId # ""
  /\ call.ret.tag = "list"
  /\ \E i, j \in 1..Len(call.ret.value) :
       /\ call.ret.value[i].id = call.orgId
       /\ call.ret.value[i].status = "revoked"
       /\ call.ret.value[j].id # call.orgId
  /\ localStorage[lsKey(call.clientId)] = JSONstringify(call.ret.value)

\* C5 as stated: once a record of a client's list is revoked, no update
\* (approve, reject, revoke) changes its status, and it stays in the list.
C5_RevokedIsTerminal ==
  [][ (isMock /\ \E s \in Sites : Begins(s))
      => \A c \in ClientIds \ {""} :
           LET before == mockLoad(localStorage, c)
               after == mockLoad(localStorage', c)
           IN  \A i \in 1..Len(before) :
                 before[i].status = "revoked"
                   => /\ i <= Len(after)
                      /\ after[i].id = before[i].id
                      /\ after[i].status = "revoked" ]_vars

\* C6: overlapping updateOrganisation calls for one client do not exclude
\* each other, and the persisted list of the client is the list written by
\* whichever of them saved last.
C6_LastWriteWins ==
  \A s1, s2 \in Sites :
    (/\ s1 # s2
     /\ sites[s1].saved /\ sites[s2].saved
     /\ sites[s1].clientId = sites[s2].clientId
     /\ writer[lsKey(sites[s2].clientId)] = s2)
    => localStorage[lsKey(sites[s2].clientId)] = JSONstringify(sites[s2].next)

\* both calls are awaiting their sleep at once, for the same client and
\* different records, and their saved lists differ
C6_Witness ==
  /\ sites["s1"].pc = "upd_sleep" /\ sites["s2"].pc = "upd_sleep"
  /\ sites["s1"].clientId = sites["s2"].clientId
  /\ sites["s1"].orgId # sites["s2"].orgId
  /\ sites["s1"].next # sites["s2"].next
  /\ writer[lsKey(sites["s2"].clientId)] = "s2"
  /\ localStorage[lsKey(sites["s2"].clientId)] = JSONstringify(sites["s2"].next)

(***************************************************************************)
(* Properties of the viewer-role resolution                                *)
(***************************************************************************)
\* attempt i settles in this step
Settles(i) == attempts[i].pending /\ ~attempts'[i].pending

\* attempt i has been replaced by a newer one, or the component is gone
Stale(i) == i < Len(attempts) \/ ~mounted

\* C7 as stated: a lookup that settles after a newer attempt has started
\* or after the component was torn down changes neither the role nor the
\* session hint nor the window flag, whatever it settles with.
C7_StaleLookupSuppressed ==
  [][ \A i \in 1..Len(attempts) :
        (Settles(i) /\ Stale(i))
          => (role' = role /\ ssRole' = ssRole /\ appRole' = appRole) ]_vars

\* the first of flag, local hint, session hint that holds a role
FirstValidHint(flag, ls, ss) ==
  IF isRole(flag) THEN flag
  ELSE IF ls # Null /\ isRole(toLowerCase(ls)) THEN toLowerCase(ls)
  ELSE IF ss # Null /\ isRole(toLowerCase(ss)) THEN toLowerCase(ss)
  ELSE Null

\* this step runs the effects of the first render
HintsRead == effectsDue = "mount" /\ effectsDue' = "none"

\* C8 as stated: on mount the role becomes the first valid one of window
\* flag, local hint and session hint; an earlier hint that is absent or
\* not a role never keeps a later valid hint from being used.
C8_FirstValidHintWins ==
  [][ HintsRead => role' = FirstValidHint(appRole, lsRole, ssRole) ]_vars

\* this step runs the effects of a render with another path
LookupRerun == effectsDue = "path" /\ effectsDue' = "none"

FreshLookupIssued ==
  /\ Len(attempts') = Len(attempts) + 1
  /\ attempts'[Len(attempts')] = [path |-> pathname', alive |-> TRUE, pending |-> TRUE]

\* C9 as stated: on every path change the hints are checked again (a hint
\* that holds a role becomes the role) and a fresh lookup is issued.
C9_RerunEntirelyOnPathChange ==
  [][ LookupRerun
      => /\ FreshLookupIssued
         /\ hintEffect(appRole, lsRole, ssRole) # Null
              => role' = hintEffect(appRole, lsRole, ssRole) ]_vars

\* C10 as stated: once a hint or a lookup result has set the role, a
\* lookup that fails or returns no role does not replace it by the role
\* inferred from the path.
C10_PathInferenceOnlyFallback ==
  [][ (/\ roleSource \in {"hint", "lookup"}
       /\ \E i \in 1..Len(attempts) : Settles(i)
       /\ ~isRole(last'.result))
      => role' = role ]_vars

(***************************************************************************)
(* Properties of the help target                                           *)
(***************************************************************************)
\* the lookup of the current effect run has settled without a valid role,
\* and no hint names a role
LookupFailedNoHint ==
  /\ mounted
  /\ last.step = "settled"
  /\ ~last.late
  /\ ~isRole(last.result)
  /\ hintEffect(appRole, lsRole, ssRole) = Null

\* query strings the dashboard may be opened with
DashboardSearches == {<<>>, << <<"role", "carer">>, <<"org", "create">> >>}

\* what the hook and the button give once the lookup has failed
PathRoleResolved ==
  /\ role = resolveRoleByPath(pathname)
  /\ viewerRole = resolveRoleByPath(pathname)
  /\ pathname = "/icon_dashboard" =>
       /\ viewerRole = "management"
       /\ \A q \in DashboardSearches :
            resolveByRoleAndPath(viewerRole, pathname, q)
              = Target("management/dashboard", "management-dashboard-overview")

\* the lookup of the current effect run is still awaited and no hint names a role
LookupAwaitedNoHint ==
  /\ mounted
  /\ Len(attempts) > 0
  /\ attempts[Len(attempts)].pending
  /\ hintEffect(appRole, lsRole, ssRole) = Null

\* the lookup of the current effect run has settled
LookupSettled == mounted /\ last.step = "settled" /\ ~last.late

\* C11: with no hint present, a lookup that fails or returns no valid role
\* leaves the resolved role equal to the role inferred from the path, and
\* every awaited lookup leads to that unless it returns a valid role or the
\* button is unmounted first; on /icon_dashboard the inferred role is
\* management and the help target is
\* {management/dashboard, management-dashboard-overview}.
C11_FailedLookupGivesPathRole ==
  /\ [](LookupFailedNoHint => PathRoleResolved)
  /\ LookupAwaitedNoHint ~>
       \/ ~mounted
       \/ LookupSettled /\ isRole(last.result)
       \/ LookupSettled /\ ~isRole(last.result) /\ PathRoleResolved

C11_Witness ==
  /\ LookupFailedNoHint
  /\ pathname = "/icon_dashboard"
  /\ last.result = Throw

\* the button has rendered and holds a target
HelpResolved == helpOut # NoTarget

PreLoginTargets ==
  {Target("prelogin/login", "login"), roleSelect, signupFamily, signupCarer,
   mgmtOrgChoice, signupManagement}

\* C12: on a path isPreLoginPath accepts, with any query string, the three
\* viewer roles get one and the same target, the pre-login target; a target
\* of a role's table or a role's default is returned only on a path that
\* isPreLoginPath rejects.
C12_PreLoginTargetIgnoresRole ==
  HelpResolved =>
    IF isPreLoginPath(helpIn.path)
    THEN /\ helpOut = resolvePreLogin(helpIn.path, helpIn.search)
         /\ helpOut \in PreLoginTargets
         /\ \A r \in Roles :
              resolveByRoleAndPath(r, helpIn.path, helpIn.search) = helpOut
    ELSE helpOut \notin PreLoginTargets

\* a management viewer on a pre-login path that the management table matches
C12_Witness ==
  /\ HelpResolved
  /\ helpIn.role = "management"
  /\ helpIn.path = "/organisation/create"
  /\ isPreLoginPath(helpIn.path)
  /\ firstHit(managementMatchers(helpIn.path)) # NoTarget
  /\ helpOut = signupManagement

\* the path is on the organisation-setup route
OrganisationPath(path) == startsWith(toLowerCase(OrElse(path, "/")), "/organisation")

\* the text between the slash after pre and the next slash, "" if there is none
segmentAfter(path, pre) ==
  LET p == toLowerCase(OrElse(path, "/"))
  IN  IF ~startsWith(p, pre \o "/") THEN ""
      ELSE LET rest == SubSeq(p, Len(pre) + 2, Len(p))
               stops == {i \in 1..Len(rest) : SubSeq(rest, i, i) = "/"} \cup {Len(rest) + 1}
               n == CHOOSE i \in stops : \A j \in stops : i <= j
           IN  SubSeq(rest, 1, n - 1)

\* the query string gives the parameter a value
HasParam(search, name) == OrElse(searchGet(search, name), "") # ""

\* C13 as stated: on an organisation-setup path the target is 'management
\* signup' exactly when the segment after /organisation is exactly create or
\* join or an org parameter is present, and 'management org choice' otherwise.
C13_SignupOnlyOnWholeSegment ==
  (HelpResolved /\ OrganisationPath(helpIn.path)) =>
    helpOut = IF \/ segmentAfter(helpIn.path, "/organisation") \in {"create", "join"}
                 \/ HasParam(helpIn.search, "org")
              THEN signupManagement
              ELSE mgmtOrgChoice

\* C13 amended: on an organisation-setup path the target is 'management
\* signup' exactly when the lowercased path contains /organisation/create or
\* /organisation/join (a segment that only begins with create or join counts)
\* or the org parameter has a non-empty value, and 'management org choice'
\* otherwise.
C13_SignupOnCreateJoinPrefix ==
  (HelpResolved /\ OrganisationPath(helpIn.path)) =>
    helpOut = IF \/ \E a \in {"create", "join"} :
                      includes(toLowerCase(helpIn.path), "/organisation/" \o a)
                 \/ HasParam(helpIn.search, "org")
              THEN signupManagement
              ELSE mgmtOrgChoice

\* a segment that only begins with create, no org parameter
C13_Witness ==
  /\ HelpResolved
  /\ helpIn.path = "/organisation/created"
  /\ ~HasParam(helpIn.search, "org")
  /\ helpOut = signupManagement

\* the path is on the role-selection route
RolePath(path) == startsWith(toLowerCase(OrElse(path, "/")), "/role")

\* the target the role-selection route gives for the values of role and org
RoleRouteTarget(roleValue, orgValue) ==
  LET r == toLowerCase(OrElse(roleValue, ""))
  IN  IF r = "" THEN roleSelect
      ELSE IF r = "family" THEN signupFamily
      ELSE IF r = "carer" THEN signupCarer
      ELSE IF r = "management"
           THEN IF OrElse(orgValue, "") = "" THEN mgmtOrgChoice ELSE signupManagement
      ELSE roleSelect

\* C14: on every path of the role-selection route the target is a function
\* of the role and org parameters alone: no role gives role-select, family
\* and carer give their signup targets, management gives the org choice
\* without org and the management signup with org; the viewer role, the rest
\* of the path and the other parameters make no difference.
C14_RoleRouteDependsOnRoleAndOrg ==
  (HelpResolved /\ RolePath(helpIn.path)) =>
    /\ helpOut = RoleRouteTarget(searchGet(helpIn.search, "role"),
                                 searchGet(helpIn.search, "org"))
    /\ \A r \in Roles :
         resolveByRoleAndPath(r, "/role", helpIn.search) = helpOut

\* role=management with an org, seen by a family viewer on a subroute
C14_Witness ==
  /\ HelpResolved
  /\ helpIn.path = "/Role/details"
  /\ helpIn.role = "family"
  /\ searchGet(helpIn.search, "role") = "management"
  /\ HasParam(helpIn.search, "org")
  /\ helpOut = signupManagement

\* the role's table applied to the lowercased path of the button
HelpTable == tables(helpIn.role, toLowerCase(OrElse(helpIn.path, "/")))

DefaultDashboard(r) == Target(r \o "/dashboard", r \o "-dashboard-overview")

\* C16: on a post-login path the target is that of the first matcher, in the
\* declared order of the role's table, that holds on the lowercased path,
\* and the role's default dashboard when none holds; management on
\* /staff_list/123 gets {management/staff-list, management-staff-list}, and a
\* budget-report or transaction-history calendar subpage never gets the
\* role's generic client-schedule target.
C16_FirstMatcherWins ==
  (HelpResolved /\ ~isPreLoginPath(helpIn.path)) =>
    LET t == HelpTable
        hits == {i \in 1..Len(t) : t[i].hit}
    IN  /\ \A i \in hits : (\A j \in hits : i <= j) => helpOut = t[i].target
        /\ hits = {} => helpOut = DefaultDashboard(helpIn.role)
        /\ (helpIn.role = "management" /\ helpIn.path = "/staff_list/123")
             => helpOut = Target("management/staff-list", "management-staff-list")
        /\ (reBudget(helpIn.path) \/ reTxn(helpIn.path))
             => helpOut.pageKey # helpIn.role \o "/client-schedule"

\* a budget subpage, which the generic calendar matcher holds on as well
C16_Witness ==
  /\ HelpResolved
  /\ helpIn.role = "family"
  /\ helpIn.path = "/Calendar_Dashboard/Category-Cost/2"
  /\ reBudget(helpIn.path)
  /\ reCalAny(helpIn.path)
  /\ helpOut = Target("family/budget-report", "family-budget-report")

(***************************************************************************)
(* Properties of the organisation-access page                              *)
(***************************************************************************)
\* the latest step was a fetch of the page that failed
FailedStep(kinds) == pageLast.step \in kinds /\ ~pageLast.ok

\* C15 as stated: after a failed load or a failed update the page holds the
\* list it held before, and an error is reported.
C15_FailureLeavesListIntact ==
  FailedStep({"load", "post", "list"}) =>
    /\ orgs = pageLast.held
    /\ errorText # Null

\* C15 amended: a failed update (POST or re-fetch) leaves the list held
\* before intact and reports 'Failed to update organisation.'; a failed load
\* replaces the list by the empty list and reports 'Failed to load
\* organisations.'; either way loading ends.
C15_OnlyFailedLoadClearsList ==
  /\ FailedStep({"post", "list"}) =>
       /\ orgs = pageLast.held
       /\ errorText = "Failed to update organisation."
       /\ ~loading
  /\ FailedStep({"load"}) =>
       /\ orgs = <<>>
       /\ errorText = "Failed to load organisations."
       /\ ~loading

\* a load fails while the page holds a list
C15_Witness ==
  /\ FailedStep({"load"})
  /\ pageLast.held # <<>>
  /\ orgs = <<>>

\* C17: in real mode, whenever the load effect of the latest render has
\* run, loading has finished and a list is displayed, it is the list
\* fetched for the active client: no fetch issued for a client selected
\* earlier overwrites it after the active client changed.
C17_ListIsOfActiveClient ==
  (/\ ~isMock
   /\ pageLast.step # "none"
   /\ ~loadDue
   /\ activeClient # Null
   /\ ~loading
   /\ errorText = Null) => shownFor = activeClient

====
